---- MODULE Spec2Model ----
(***************************************************************************)
(* Model of mortgage.py: the amortization engine (monthly_payment,         *)
(* build_am_table), the loan model (mortgage.__post_init__, summary) and   *)
(* the batch comparison (compare_mortgages).                               *)
(*                                                                         *)
(* A float is a rational <<n, d>> (d > 0, lowest terms) with a significand *)
(* of Precision bits and an unbounded exponent; every operation computes   *)
(* the exact result and rounds it to the nearest float, ties to even, in   *)
(* the order the code evaluates it.  Python's None is the empty tuple,     *)
(* pandas' NaN (min/max of an empty selection) is <<0, 0>>, and a division *)
(* by zero (ZeroDivisionError) is <<1, 0>>.                                *)
(***************************************************************************)
EXTENDS Integers, Sequences, FiniteSets, TLC

VARIABLES pc, call, params, self, am_args, am_table, inputs, i, table, raised

vars == <<pc, call, params, self, am_args, am_table, inputs, i, table, raised>>

\* ---------------------------------------------------------------- bounds
MaxTerm == 3
MaxRows == 2
\* Significant bits of a float (53 in the program).
Precision == 8

\* ---------------------------------------------------------------- numbers
None == <<>>
NaN == <<0, 0>>
ZeroDiv == <<1, 0>>

IsNone(x) == x = None
IsNaN(x) == x = NaN
IsNum(x) == Len(x) = 2 /\ x[2] # 0

Abs(x) == IF x < 0 THEN -x ELSE x

RECURSIVE GCD(_, _)
GCD(a, b) == IF b = 0 THEN a ELSE GCD(b, a % b)

Norm(n, d) ==
    LET s == IF d < 0 THEN -1 ELSE 1
        g == GCD(Abs(n), Abs(d))
    IN  <<(s * n) \div g, (s * d) \div g>>

R(k) == <<k, 1>>

RECURSIVE Pow2(_)
Pow2(k) == IF k = 0 THEN 1 ELSE 2 * Pow2(k - 1)

\* The nearest integer to x, ties to even.
RoundHalfEven(x) ==
    LET q == x[1] \div x[2]
        rem == x[1] % x[2]
    IN  IF 2 * rem < x[2] THEN q
        ELSE IF 2 * rem > x[2] THEN q + 1
        ELSE IF q % 2 = 0 THEN q ELSE q + 1

\* r * 2 and r / 2, exactly.
Twice(r) == Norm(2 * r[1], r[2])
Half(r) == Norm(r[1], 2 * r[2])

\* n/d (n, d > 0) rounded to Precision significant bits, ties to even.
RECURSIVE FlPos(_, _)
FlPos(n, d) ==
    IF n >= Pow2(Precision) * d THEN Twice(FlPos(n, 2 * d))
    ELSE IF n < Pow2(Precision - 1) * d THEN Half(FlPos(2 * n, d))
    ELSE R(RoundHalfEven(<<n, d>>))

\* r with the sign of n.
Signed(n, r) == IF n < 0 THEN <<-r[1], r[2]>> ELSE r

\* The float nearest to the rational x (the rounding of every operation).
Fl(x) == IF x[1] = 0 THEN R(0) ELSE Signed(x[1], FlPos(Abs(x[1]), x[2]))

\* Float +, -, *, /: the exact result, rounded; x / 0 raises.
RAdd(a, b) == Fl(Norm(a[1] * b[2] + b[1] * a[2], a[2] * b[2]))
RSub(a, b) == Fl(Norm(a[1] * b[2] - b[1] * a[2], a[2] * b[2]))
RMul(a, b) == Fl(Norm(a[1] * b[1], a[2] * b[2]))
RDiv(a, b) == IF b[1] = 0 THEN ZeroDiv ELSE Fl(Norm(a[1] * b[2], a[2] * b[1]))

\* Comparisons; any comparison with NaN is false.
RLt(a, b) == IsNum(a) /\ IsNum(b) /\ a[1] * b[2] < b[1] * a[2]
RLe(a, b) == IsNum(a) /\ IsNum(b) /\ a[1] * b[2] <= b[1] * a[2]

RECURSIVE ExactPow(_, _)
ExactPow(a, k) ==
    IF k = 0 THEN R(1) ELSE Norm(a[1] * ExactPow(a, k - 1)[1], a[2] * ExactPow(a, k - 1)[2])

\* a ** k for an integer k: the exact power, rounded once.
RPow(a, k) == Fl(ExactPow(a, k))

\* Python's max(a, b) and min(a, b): the first argument unless the second
\* is strictly greater (smaller).
PyMax(a, b) == IF RLt(a, b) THEN b ELSE a
PyMin(a, b) == IF RLt(b, a) THEN b ELSE a

\* ---------------------------------------------------------------- engine
\* monthly_payment: the annuity formula; ZeroDiv when (1 + rate)^term = 1.
monthly_payment(amount, rate, term) ==
    LET growth == RPow(RAdd(R(1), rate), term)
    IN  RDiv(RMul(amount, RMul(rate, growth)), RSub(growth, R(1)))

FirstRowWith(amount, interest, principal) ==
    [month |-> 1, interest |-> interest, principal |-> principal,
     balance |-> RSub(amount, principal)]

FirstRowOf(amount, interest, total_payment) ==
    FirstRowWith(amount, interest, RSub(total_payment, interest))

\* Month 1 of build_am_table: no clamp on any of the three columns.
FirstRow(amount, rate, total_payment) ==
    FirstRowOf(amount, RMul(amount, rate), total_payment)

\* principals.append(max(0, min(balance - interest, total_payment - interest)))
Principal(prev, interest, total_payment) ==
    PyMax(R(0), PyMin(RSub(prev.balance, interest), RSub(total_payment, interest)))

\* newbal = newbal if newbal > 1 else 0; balances.append(max(0, newbal))
Clamped(newbal) == PyMax(R(0), IF RLt(R(1), newbal) THEN newbal ELSE R(0))

RowAfter(prev, interest, principal) ==
    [month |-> prev.month + 1, interest |-> interest, principal |-> principal,
     balance |-> Clamped(RSub(prev.balance, principal))]

RowWith(prev, interest, total_payment) ==
    RowAfter(prev, interest, Principal(prev, interest, total_payment))

\* One iteration of the loop of build_am_table.
NextRow(prev, rate, total_payment) ==
    RowWith(prev, PyMax(R(0), RMul(prev.balance, rate)), total_payment)

RECURSIVE AmRows(_, _, _, _)
AmRows(rows, term, rate, total_payment) ==
    IF Len(rows) >= term THEN rows
    ELSE AmRows(Append(rows, NextRow(rows[Len(rows)], rate, total_payment)),
                term, rate, total_payment)

build_am_table(term, amount, rate, total_payment) ==
    AmRows(<<FirstRow(amount, rate, total_payment)>>, term, rate, total_payment)

\* ---------------------------------------------------------------- loan model
\* An exception leaving __post_init__: no object is produced.
Raise(exc, line) == [status |-> exc, line |-> line]

LoanUndefined(p) == IsNone(p.loan_amount) \/ RLt(p.loan_amount, R(1))
SaleUndefined(p) == IsNone(p.sale_price) \/ RLt(p.sale_price, R(1))
PmiRequested(p) == ~IsNone(p.pmi_amount) /\ RLt(R(0), p.pmi_amount)

\* The two raise statements at the head of __post_init__ (0 = neither).
Validate(p) ==
    IF LoanUndefined(p) /\ SaleUndefined(p) THEN 53
    ELSE IF PmiRequested(p) /\ SaleUndefined(p) THEN 56
    ELSE 0

\* x * 100, unless computing x raised.
Percent(x) == IF x = ZeroDiv THEN ZeroDiv ELSE RMul(x, R(100))

\* LoanResolved without the overwrite of a supplied sale price.
LoanResolvedKeepSale(p, dp, pct) ==
    IF pct = ZeroDiv THEN Raise("ZeroDivisionError", 63)
    ELSE IF dp = ZeroDiv THEN Raise("ZeroDivisionError", 65)
    ELSE [status |-> "ok", loan_amount |-> p.loan_amount, dp_dollars |-> dp,
          dp_percent |-> pct,
          sale_price |-> IF IsNone(p.sale_price) THEN RAdd(p.loan_amount, dp)
                         ELSE p.sale_price]

\* self.sale_price = self.loan_amount + self.dp_dollars, once the down
\* payment is known (or its computation has raised).
LoanResolved(p, dp, pct) ==
    IF pct = ZeroDiv THEN Raise("ZeroDivisionError", 63)
    ELSE IF dp = ZeroDiv THEN Raise("ZeroDivisionError", 65)
    ELSE [status |-> "ok", loan_amount |-> p.loan_amount, dp_dollars |-> dp,
          dp_percent |-> pct, sale_price |-> RAdd(p.loan_amount, dp)]

\* "if loan amount is defined, use it"
ResolveLoan(p) ==
    IF IsNone(p.dp_dollars) /\ IsNone(p.dp_percent)
    THEN LoanResolved(p, R(0), R(0))
    ELSE IF ~IsNone(p.dp_dollars)
    THEN LoanResolved(p, p.dp_dollars,
                      Percent(RDiv(p.dp_dollars,
                                   RAdd(p.loan_amount, p.dp_dollars))))
    ELSE LoanResolved(p,
                      RDiv(RMul(RDiv(p.dp_percent, R(100)), p.loan_amount),
                           RSub(R(1), RDiv(p.dp_percent, R(100)))),
                      p.dp_percent)

\* self.loan_amount = self.sale_price - self.dp_dollars
SaleResolved(p, dp, pct) ==
    [status |-> "ok", loan_amount |-> RSub(p.sale_price, dp),
     dp_dollars |-> dp, dp_percent |-> pct, sale_price |-> p.sale_price]

\* "otherwise, use sale price"
ResolveSale(p) ==
    IF IsNone(p.dp_dollars) /\ IsNone(p.dp_percent)
    THEN SaleResolved(p, R(0), R(0))
    ELSE IF ~IsNone(p.dp_dollars)
    THEN SaleResolved(p, p.dp_dollars,
                      RMul(RDiv(p.dp_dollars, p.sale_price), R(100)))
    ELSE SaleResolved(p, RMul(p.sale_price, RDiv(p.dp_percent, R(100))),
                      p.dp_percent)

Resolve(p) ==
    IF ~IsNone(p.loan_amount) /\ RLe(R(1), p.loan_amount)
    THEN ResolveLoan(p) ELSE ResolveSale(p)

\* "if self.x is None: self.x = default"
Default(x, d) == IF IsNone(x) THEN d ELSE x

\* Arithmetic that may meet pandas' NaN (self.pmi_drop): NaN propagates.
FAdd(a, b) == IF IsNaN(a) \/ IsNaN(b) THEN NaN ELSE RAdd(a, b)
FMul(a, b) == IF IsNaN(a) \/ IsNaN(b) THEN NaN ELSE RMul(a, b)

\* Series.min() / Series.max() of the selected months: NaN when none.
SeriesMin(S) == IF S = {} THEN NaN ELSE R(CHOOSE m \in S : \A k \in S : m <= k)
SeriesMax(S) == IF S = {} THEN NaN ELSE R(CHOOSE m \in S : \A k \in S : m >= k)

RECURSIVE SumInterest(_, _, _)
SumInterest(tbl, payoff, k) ==
    IF k = 0 THEN R(0)
    ELSE IF RLe(R(tbl[k].month), payoff)
         THEN RAdd(SumInterest(tbl, payoff, k - 1), tbl[k].interest)
         ELSE SumInterest(tbl, payoff, k - 1)

\* am_table.loc[am_table['month'] <= payoff, 'interest'].sum()
InterestPaid(tbl, payoff) == SumInterest(tbl, payoff, Len(tbl))

\* The months whose loan-to-value is below the PMI threshold; sale_price is
\* never 0 once Resolve has succeeded.
LtvBelow(tbl, sale_price, pmi_ltv) ==
    {k \in 1..Len(tbl) :
        RLt(RDiv(tbl[k].balance, sale_price), RDiv(pmi_ltv, R(100)))}

\* PmiDrop with max() in place of min().
PmiDropLast(tbl, pmi_amount, sale_price, pmi_ltv) ==
    IF RLe(pmi_amount, R(0)) THEN R(0)
    ELSE SeriesMax({tbl[k].month : k \in LtvBelow(tbl, sale_price, pmi_ltv)})

PmiDrop(tbl, pmi_amount, sale_price, pmi_ltv) ==
    IF RLe(pmi_amount, R(0)) THEN R(0)
    ELSE SeriesMin({tbl[k].month : k \in LtvBelow(tbl, sale_price, pmi_ltv)})

\* am_table.loc[am_table['balance'] > 0, 'month'].max()
MonthsPayoffByPayment(tbl) ==
    SeriesMax({tbl[k].month : k \in {j \in 1..Len(tbl) : RLt(R(0), tbl[j].balance)}})

\* The rows of am_table with month == payoff (values[0] is taken of them).
RowsAtMonth(tbl, payoff) == {k \in 1..Len(tbl) : R(tbl[k].month) = payoff}

\* The fields after resolution and defaulting, with c_rate and payoff.
Defaulted(p, r) ==
    [status |-> "ok", term |-> p.term, rate |-> p.rate,
     sale_price |-> r.sale_price, dp_dollars |-> r.dp_dollars,
     dp_percent |-> r.dp_percent, loan_amount |-> r.loan_amount,
     insurance |-> Default(p.insurance, R(0)),
     taxes |-> Default(p.taxes, R(0)),
     add_payment |-> Default(p.add_payment, R(0)),
     payoff_months |-> p.payoff_months,
     closing_costs |-> Default(p.closing_costs, R(0)),
     name |-> Default(p.name, <<"">>),
     pmi_amount |-> Default(p.pmi_amount, R(0)),
     pmi_ltv |-> Default(p.pmi_ltv, R(80)),
     c_rate |-> RDiv(p.rate, R(1200)),
     payoff |-> IF ~IsNone(p.payoff_months) THEN p.payoff_months
                ELSE R(p.term)]

\* base_payment, piti_payment, payment
WithPayments(o, base_payment) ==
    o @@ [base_payment |-> base_payment,
          piti_payment |-> RAdd(RAdd(base_payment, RDiv(o.insurance, R(12))),
                                RDiv(o.taxes, R(12))),
          payment |-> RAdd(base_payment, o.add_payment)]

\* am_table_base, am_table
Schedules(o) ==
    o @@ [am_table_base |-> build_am_table(o.term, o.loan_amount, o.c_rate,
                                           o.base_payment),
          am_table |-> build_am_table(o.term, o.loan_amount, o.c_rate,
                                      o.payment)]

\* interest_paid_base, interest_paid, pmi_drop, months_payoff_by_payment
Reductions(o) ==
    o @@ [interest_paid_base |-> InterestPaid(o.am_table_base, o.payoff),
          interest_paid |-> InterestPaid(o.am_table, o.payoff),
          pmi_drop |-> PmiDrop(o.am_table, o.pmi_amount, o.sale_price, o.pmi_ltv),
          months_payoff_by_payment |-> MonthsPayoffByPayment(o.am_table)]

\* interest_saved, pmi_total_cost, cash_to_close
Costs(o) ==
    o @@ [interest_saved |-> RSub(o.interest_paid_base, o.interest_paid),
          pmi_total_cost |-> FMul(o.pmi_amount, o.pmi_drop),
          cash_to_close |-> RAdd(o.dp_dollars, o.closing_costs)]

\* The loan is sold or refinanced before the payments retire it.
Sold(o) == RLt(o.payoff, o.months_payoff_by_payment)

\* .values[0] of the balances of the rows with month == payoff.
BalanceAt(tbl, payoff) ==
    tbl[CHOOSE k \in RowsAtMonth(tbl, payoff) :
            \A j \in RowsAtMonth(tbl, payoff) : k <= j].balance

\* finance_costs and the payoff resolution.
Payoff(o) ==
    IF Sold(o) /\ RowsAtMonth(o.am_table, o.payoff) = {}
    THEN Raise("IndexError", 111)
    ELSE o @@ [finance_costs |-> FAdd(RAdd(o.interest_paid, o.closing_costs),
                                      o.pmi_total_cost),
               balance_at_payoff |-> IF Sold(o) THEN BalanceAt(o.am_table, o.payoff)
                                     ELSE R(0),
               payoff_reason |-> IF Sold(o) THEN "Sale/Paid Off" ELSE "Payments",
               payoff_month |-> PyMin(o.months_payoff_by_payment, o.payoff)]

\* The fields through self.am_table, given the base payment.
Scheduled(o, base_payment) == Schedules(WithPayments(o, base_payment))

\* The rest of __post_init__ once monthly_payment has returned or raised.
Derived(o, base_payment) ==
    IF base_payment = ZeroDiv THEN Raise("ZeroDivisionError", 8)
    ELSE Payoff(Costs(Reductions(Scheduled(o, base_payment))))

\* self.base_payment = monthly_payment(self.loan_amount, self.c_rate, self.term)
BasePayment(o) == monthly_payment(o.loan_amount, o.c_rate, o.term)

DeriveFrom(o) == Derived(o, BasePayment(o))

\* Everything from the defaulting of the optional fields to cash_to_close.
Derive(p, r) == DeriveFrom(Defaulted(p, r))

\* self.am_table of an accepted p with rate > 0.
ActualSchedule(p) ==
    Scheduled(Defaulted(p, Resolve(p)), BasePayment(Defaulted(p, Resolve(p)))).am_table

\* mortgage(**p): the dataclass constructor followed by __post_init__.
Resolved(p, r) == IF r.status # "ok" THEN r ELSE Derive(p, r)

Validated(p, v) == IF v # 0 THEN Raise("ValueError", v) ELSE Resolved(p, Resolve(p))

PostInit(p) == Validated(p, Validate(p))

\* ---------------------------------------------------------------- summary
\* '{:.0f}'.format(x): the nearest integer, ties to even; 'nan' for NaN.
Format0(x) == IF IsNaN(x) THEN NaN ELSE R(RoundHalfEven(x))

\* '{:.3f}'.format(x): the nearest multiple of 1/1000.
Format3(x) == Norm(RoundHalfEven(Norm(x[1] * 1000, x[2])), 1000)

\* mortgage.summary(): one column, named self.name, of the formatted values
\* in the order of the labels.
Summary(o) ==
    [name |-> o.name,
     values |-> <<Format0(o.loan_amount), Format0(o.dp_dollars),
                  Format0(R(o.term)), Format3(o.rate),
                  Format0(o.base_payment), Format0(o.piti_payment),
                  Format0(o.pmi_amount), Format0(o.add_payment),
                  Format0(RAdd(RAdd(o.piti_payment, o.add_payment), o.pmi_amount)),
                  Format0(o.pmi_drop), Format0(o.payoff_month),
                  Format0(o.balance_at_payoff), o.payoff_reason,
                  Format0(o.interest_paid), Format0(o.interest_saved),
                  Format0(o.closing_costs), Format0(o.cash_to_close),
                  Format0(o.finance_costs)>>]

\* inputs.where(pd.notnull(inputs), None): blank cells (NaN) become None.
NotNull(x) == IF IsNaN(x) THEN None ELSE x

WhereNotNull(row) ==
    [term |-> row.term, rate |-> row.rate,
     sale_price |-> NotNull(row.sale_price),
     dp_dollars |-> NotNull(row.dp_dollars),
     dp_percent |-> NotNull(row.dp_percent),
     loan_amount |-> NotNull(row.loan_amount),
     insurance |-> NotNull(row.insurance), taxes |-> NotNull(row.taxes),
     add_payment |-> NotNull(row.add_payment),
     payoff_months |-> NotNull(row.payoff_months),
     closing_costs |-> NotNull(row.closing_costs),
     name |-> NotNull(row.name),
     pmi_amount |-> NotNull(row.pmi_amount), pmi_ltv |-> NotNull(row.pmi_ltv)]

\* ---------------------------------------------------------------- inputs
Terms == 1..MaxTerm
Rates == {R(0), R(600)}
SalePrices == {None, R(0), R(100)}
LoanAmounts == {None, R(3), R(100)}
\* <<dp_dollars, dp_percent>>
DownPayments == {<<None, None>>, <<R(20), None>>, <<R(1000), None>>,
                 <<None, R(20)>>, <<None, R(100)>>, <<R(20), R(100)>>}
PayoffMonths == {None, R(0), R(1), R(5)}
\* <<pmi_amount, pmi_ltv>>
PmiOptions == {<<None, None>>, <<R(0), None>>, <<R(10), None>>,
               <<R(10), R(40)>>, <<R(10), R(10)>>}
\* <<add_payment, insurance, taxes, closing_costs, name>>
Extras == {<<None, None, None, None, None>>,
           <<R(10), R(12), R(24), R(5), <<"A">>>>,
           <<R(500), R(0), R(0), R(-5), <<"">>>>}

MkParams(term, rate, sp, la, dp, po, pmi, ex) ==
    [term |-> term, rate |-> rate, sale_price |-> sp, dp_dollars |-> dp[1],
     dp_percent |-> dp[2], loan_amount |-> la, insurance |-> ex[2],
     taxes |-> ex[3], add_payment |-> ex[1], payoff_months |-> po,
     closing_costs |-> ex[4], name |-> ex[5],
     pmi_amount |-> pmi[1], pmi_ltv |-> pmi[2]]

ParamSet ==
    {MkParams(t[1], t[2], t[3], t[4], t[5], t[6], t[7], t[8]) :
        t \in Terms \X Rates \X SalePrices \X LoanAmounts \X DownPayments
              \X PayoffMonths \X PmiOptions \X Extras}

\* Arguments of a direct call of build_am_table.
Amounts == {R(0), R(2), R(100)}
PeriodicRates == {R(0), <<1, 2>>, <<1, 8>>}
Payments == {R(0), R(1), R(10), R(60), R(90), R(500)}

AmArgSet ==
    [term : Terms, amount : Amounts, rate : PeriodicRates,
     total_payment : Payments]
    \cup {[term |-> t, amount |-> a, rate |-> r,
           total_payment |-> monthly_payment(a, r, t)] :
            t \in Terms, a \in Amounts, r \in PeriodicRates \ {R(0)}}

\* Rows of an uploaded file: blank cells are NaN.
Blank(name) ==
    [term |-> 2, rate |-> R(600), sale_price |-> NaN, dp_dollars |-> NaN,
     dp_percent |-> NaN, loan_amount |-> NaN, insurance |-> NaN,
     taxes |-> NaN, add_payment |-> NaN, payoff_months |-> NaN,
     closing_costs |-> NaN, name |-> name, pmi_amount |-> NaN,
     pmi_ltv |-> NaN]

RowSet ==
    {[Blank(<<"A">>) EXCEPT !.sale_price = R(100), !.dp_percent = R(20)],
     [Blank(<<"B">>) EXCEPT !.loan_amount = R(100), !.add_payment = R(10),
                            !.payoff_months = R(1)],
     [Blank(NaN) EXCEPT !.loan_amount = R(3), !.term = 3],
     Blank(<<"C">>),
     [Blank(<<"D">>) EXCEPT !.loan_amount = R(100), !.pmi_amount = R(10)],
     [Blank(<<"E">>) EXCEPT !.sale_price = R(100), !.rate = R(0)],
     [Blank(<<"F">>) EXCEPT !.sale_price = R(100), !.payoff_months = R(0)]}

RECURSIVE SeqsUpTo(_, _)
SeqsUpTo(S, n) ==
    IF n = 0 THEN {<<>>}
    ELSE LET shorter == SeqsUpTo(S, n - 1)
         IN  shorter \cup {Append(q, x) : q \in shorter, x \in S}

\* ---------------------------------------------------------------- behaviour
InitMortgage ==
    /\ call = "mortgage" /\ pc = "start"
    /\ params \in ParamSet
    /\ self = None
    /\ am_args = None /\ am_table = None
    /\ inputs = None /\ i = 0 /\ table = None /\ raised = None

InitTable ==
    /\ call = "table" /\ pc = "start"
    /\ am_args \in AmArgSet
    /\ am_table = None
    /\ params = None /\ self = None
    /\ inputs = None /\ i = 0 /\ table = None /\ raised = None

InitCompare ==
    /\ call = "compare" /\ pc = "loop"
    /\ inputs \in SeqsUpTo(RowSet, MaxRows)
    /\ i = 0 /\ table = None /\ raised = None
    /\ params = None /\ self = None
    /\ am_args = None /\ am_table = None

Init == InitMortgage \/ InitTable \/ InitCompare

\* mortgage(**params)
NewMortgage ==
    /\ call = "mortgage" /\ pc = "start"
    /\ self' = PostInit(params)
    /\ pc' = "done"
    /\ UNCHANGED <<call, params, am_args, am_table, inputs, i, table, raised>>

\* build_am_table(term, amount, rate, total_payment)
BuildAmTable ==
    /\ call = "table" /\ pc = "start"
    /\ am_table' = build_am_table(am_args.term, am_args.amount, am_args.rate,
                                  am_args.total_payment)
    /\ pc' = "done"
    /\ UNCHANGED <<call, params, self, am_args, inputs, i, table, raised>>

\* CompareConstruct with a row that fails to construct skipped, not raised.
CompareConstructSkip ==
    /\ call = "compare" /\ pc = "loop" /\ i < Len(inputs)
    /\ self' = PostInit(WhereNotNull(inputs[i + 1]))
    /\ IF self'.status # "ok"
       THEN i' = i + 1 /\ pc' = "loop"
       ELSE i' = i /\ pc' = "concat"
    /\ UNCHANGED <<call, params, am_args, am_table, inputs, table, raised>>

\* The head of an iteration of compare_mortgages: temp = mortgage(**row);
\* an exception of the constructor leaves the function.
CompareConstruct ==
    /\ call = "compare" /\ pc = "loop" /\ i < Len(inputs)
    /\ self' = PostInit(WhereNotNull(inputs[i + 1]))
    /\ IF self'.status # "ok"
       THEN raised' = self' /\ pc' = "raised"
       ELSE raised' = raised /\ pc' = "concat"
    /\ UNCHANGED <<call, params, am_args, am_table, inputs, i, table>>

\* The rest of the iteration: temp.summary() becomes the table, or is
\* concatenated to it as the last column.
CompareConcat ==
    /\ call = "compare" /\ pc = "concat"
    /\ table' = Append(table, Summary(self))
    /\ i' = i + 1
    /\ pc' = "loop"
    /\ UNCHANGED <<call, params, self, am_args, am_table, inputs, raised>>

\* "return table" once the loop is over.
CompareReturn ==
    /\ call = "compare" /\ pc = "loop" /\ i = Len(inputs)
    /\ pc' = "returned"
    /\ UNCHANGED <<call, params, self, am_args, am_table, inputs, i, table, raised>>

Next ==
    NewMortgage \/ BuildAmTable \/ CompareConstruct \/ CompareConcat
        \/ CompareReturn

Spec == Init /\ [][Next]_vars

\* ---------------------------------------------------------------- claims
Built == call = "mortgage" /\ pc = "done"
Constructed == Built /\ self.status = "ok"
TableBuilt == call = "table" /\ pc = "done"

\* The loan amount is authoritative: supplied and >= 1.
LoanFirst(p) == ~IsNone(p.loan_amount) /\ RLe(R(1), p.loan_amount)

\* C1 as stated: after every successful construction
\* loan_amount == sale_price - dp_dollars.
C1_LoanIsSaleMinusDown ==
    Constructed => self.loan_amount = RSub(self.sale_price, self.dp_dollars)

\* |a - b| * 2^(Precision - 2) <= max(|a|, |b|, |c|): a and b differ by at
\* most a few units in the last place of the largest operand.
WithinRounding(a, b, c) ==
    LET diff == Abs(a[1] * b[2] - b[1] * a[2]) * Pow2(Precision - 2)
        den == a[2] * b[2]
    IN  \/ diff * c[2] <= Abs(c[1]) * den
        \/ diff * a[2] <= Abs(a[1]) * den
        \/ diff * b[2] <= Abs(b[1]) * den

\* C1 as amended: after every successful construction the derived one of
\* the two amounts is the float result of its own assignment,
\* sale_price == loan_amount + dp_dollars when the loan amount is
\* authoritative (also when a sale price was supplied) and
\* loan_amount == sale_price - dp_dollars otherwise; in the first case
\* loan_amount equals sale_price - dp_dollars up to rounding only.
C1_ResolvedAmounts ==
    Constructed =>
        IF LoanFirst(params)
        THEN /\ self.loan_amount = params.loan_amount
             /\ self.sale_price = RAdd(self.loan_amount, self.dp_dollars)
             /\ WithinRounding(self.loan_amount,
                               RSub(self.sale_price, self.dp_dollars),
                               self.sale_price)
        ELSE /\ self.sale_price = params.sale_price
             /\ self.loan_amount = RSub(self.sale_price, self.dp_dollars)

\* Both amounts supplied, and the supplied sale price is not the resolved one.
C1_Witness ==
    /\ Constructed
    /\ LoanFirst(params)
    /\ ~SaleUndefined(params)
    /\ params.sale_price # self.sale_price

\* Validation and resolution passed: only the derived computation remains.
Accepted(p) == Validate(p) = 0 /\ Resolve(p).status = "ok"

DownPaymentGiven(p) == ~IsNone(p.dp_dollars) \/ ~IsNone(p.dp_percent)

\* The sale price is supplied (>= 1), or derivable from a supplied loan
\* amount (>= 1) and a supplied down payment.
SaleResolvable(p) ==
    ~SaleUndefined(p) \/ (~LoanUndefined(p) /\ DownPaymentGiven(p))

\* C2: construction fails with the validation error exactly when neither a
\* loan amount >= 1 nor a sale price >= 1 is supplied, or PMI is requested
\* and the sale price is unresolvable; PMI with a loan amount, a down payment
\* and no sale price is accepted.
C2_ValidationExactly ==
    Built =>
        (self.status = "ValueError"
            <=> \/ LoanUndefined(params) /\ SaleUndefined(params)
                \/ PmiRequested(params) /\ ~SaleResolvable(params))

\* C3: a valid loan with rate 0 constructs, with base_payment ==
\* loan_amount / term and an all-zero interest column.
C3_ZeroRate ==
    (Built /\ Accepted(params) /\ params.rate = R(0)) =>
        /\ self.status = "ok"
        /\ self.base_payment = RDiv(self.loan_amount, R(self.term))
        /\ \A m \in 1..Len(self.am_table) : self.am_table[m].interest = R(0)

\* C4: with add_payment >= 0 the balance of the actual schedule never
\* increases, starting from the loan amount.
C4_BalanceNeverIncreases ==
    (Constructed /\ RLe(R(0), self.add_payment) /\ RLe(R(1), self.loan_amount)) =>
        /\ RLe(self.am_table[1].balance, self.loan_amount)
        /\ \A m \in 2..Len(self.am_table) :
               RLe(self.am_table[m].balance, self.am_table[m - 1].balance)

\* C5: every row of every schedule of build_am_table (term >= 1,
\* amount >= 0, rate >= 0, total_payment >= 0) has interest, principal and
\* balance >= 0.
C5_RowsNonNegative ==
    TableBuilt =>
        \A m \in 1..Len(am_table) :
            /\ RLe(R(0), am_table[m].interest)
            /\ RLe(R(0), am_table[m].principal)
            /\ RLe(R(0), am_table[m].balance)

\* C6: a schedule over the full term with rate > 0 and a payment of at least
\* the annuity payment ends with balance 0 (all of the principal repaid but
\* the residue of the zero clamp).
C6_PaidOffAtTerm ==
    (/\ TableBuilt
     /\ RLt(R(0), am_args.rate)
     /\ RLe(monthly_payment(am_args.amount, am_args.rate, am_args.term),
            am_args.total_payment)) =>
        am_table[Len(am_table)].balance = R(0)

\* The months of the actual schedule with a balance > 0.
OpenMonths(tbl) == {m \in 1..Len(tbl) : RLt(R(0), tbl[m].balance)}

\* C7: with N the largest month with balance > 0: N > payoff gives
\* 'Sale/Paid Off', payoff_month == payoff and the balance of that month,
\* which is > 0; otherwise 'Payments', payoff_month == N and balance 0; and
\* payoff_month <= payoff and <= term either way.
C7_PayoffResolution ==
    (Built /\ Accepted(params) /\ RLt(R(0), params.rate)) =>
        /\ self.status = "ok"
        /\ LET tbl == self.am_table
               open == OpenMonths(tbl)
               late == {m \in open : RLt(self.payoff, R(m))}
           IN  IF late # {}
               THEN /\ self.payoff_reason = "Sale/Paid Off"
                    /\ self.payoff_month = self.payoff
                    /\ \E m \in 1..Len(tbl) :
                          /\ R(m) = self.payoff
                          /\ self.balance_at_payoff = tbl[m].balance
                    /\ RLt(R(0), self.balance_at_payoff)
               ELSE /\ self.payoff_reason = "Payments"
                    /\ \E m \in open :
                          /\ self.payoff_month = R(m)
                          /\ \A k \in open : k <= m
                    /\ self.balance_at_payoff = R(0)
        /\ RLe(self.payoff_month, self.payoff)
        /\ RLe(self.payoff_month, R(self.term))

\* mortgage(**row) of row k of the uploaded file.
RowObject(k) == PostInit(WhereNotNull(inputs[k]))

\* C8: compare_mortgages returns only if every row constructs, and then one
\* column per row, in row order, each the summary of its row; otherwise the
\* exception of the first row that fails leaves the function.
C8_AllOrNothing ==
    call = "compare" =>
        /\ pc = "returned" =>
              /\ \A k \in 1..Len(inputs) : RowObject(k).status = "ok"
              /\ Len(table) = Len(inputs)
              /\ \A k \in 1..Len(inputs) : table[k] = Summary(RowObject(k))
        /\ pc = "raised" =>
              \E k \in 1..Len(inputs) :
                  /\ \A j \in 1..(k - 1) : RowObject(j).status = "ok"
                  /\ RowObject(k).status # "ok"
                  /\ raised = RowObject(k)
        /\ (\E k \in 1..Len(inputs) : RowObject(k).status # "ok") =>
              /\ pc # "returned"
              /\ ~(pc = "loop" /\ i = Len(inputs))

\* A valid row was summarised, then a later row raised.
C8_Witness ==
    /\ call = "compare" /\ pc = "raised"
    /\ i >= 1 /\ Len(table) = i
    /\ raised.status = "ValueError"
    /\ raised = RowObject(i + 1)

\* Month m of the actual schedule is below the PMI threshold.
BelowThreshold(m) ==
    RLt(RDiv(self.am_table[m].balance, self.sale_price),
        RDiv(self.pmi_ltv, R(100)))

\* C9: pmi_amount <= 0 gives pmi_drop == 0 and no PMI cost; pmi_amount > 0
\* with a month below the threshold gives the least such month, and
\* pmi_total_cost == pmi_amount * pmi_drop.
C9_PmiDropOff ==
    Constructed =>
        /\ RLe(self.pmi_amount, R(0)) =>
              self.pmi_drop = R(0) /\ self.pmi_total_cost = R(0)
        /\ (/\ RLt(R(0), self.pmi_amount)
            /\ \E m \in 1..self.term : BelowThreshold(m)) =>
              \E m \in 1..self.term :
                  /\ self.pmi_drop = R(m)
                  /\ BelowThreshold(m)
                  /\ \A j \in 1..(m - 1) : ~BelowThreshold(j)
                  /\ self.pmi_total_cost = RMul(self.pmi_amount, R(m))

\* PMI is charged and drops off after a month that was not below the threshold.
C9_Witness ==
    /\ Constructed
    /\ RLt(R(0), self.pmi_amount)
    /\ RLt(R(1), self.pmi_drop)
    /\ ~BelowThreshold(1)
    /\ \E m \in 1..self.term : m > 1 /\ self.pmi_drop = R(m) /\ m < self.term

\* PMI is not charged, or the threshold is reached within the schedule.
PmiDefined(p) ==
    \/ RLe(Default(p.pmi_amount, R(0)), R(0))
    \/ LtvBelow(ActualSchedule(p), Resolve(p).sale_price,
                Default(p.pmi_ltv, R(80))) # {}

\* C10: once validation has passed, with rate > 0 and PMI absent or dropping
\* off within the schedule, construction completes and every derived field
\* is a number.
C10_DerivedTotal ==
    (/\ Built /\ Accepted(params)
     /\ RLt(R(0), params.rate)
     /\ PmiDefined(params)) =>
        /\ self.status = "ok"
        /\ IsNum(self.months_payoff_by_payment)
        /\ IsNum(self.payoff_month)
        /\ IsNum(self.balance_at_payoff)
        /\ self.payoff_reason \in {"Payments", "Sale/Paid Off"}
        /\ IsNum(self.interest_paid)
        /\ IsNum(self.interest_saved)
        /\ IsNum(self.finance_costs)
        /\ IsNum(self.cash_to_close)

====
